---------------------------- MODULE Spec2Model ----------------------------
(***************************************************************************)
(* A model of the buffer adapters of the bytes crate:                      *)
(*   src/src/buf/chain.rs   Chain<T, U>: two cursors sequenced end to end  *)
(*   src/src/either.rs      Buf / BufMut for Either<L, R>                  *)
(* The cursors a Chain or an Either wraps (Bytes, BytesMut, the Buf and    *)
(* BufMut traits' provided methods, IntoIter) live outside these files;    *)
(* they are modelled from their contract: a read cursor is a byte string   *)
(* with a position, a write cursor a fixed-capacity buffer with a length.  *)
(***************************************************************************)
EXTENDS Integers, Sequences, FiniteSets, TLC

\* Longest content of one read segment.
MaxLen == 2
\* Largest capacity of one write segment.
MaxCap == 2
\* Most destination slots handed to a vectored view.
MaxSlots == 3
\* The width of usize, the machine word sizes are counted in.
WordBits == 4
\* The byte values contents are drawn from: the adapters never look at a
\* byte, and two values tell any two positions apart.
Byte == {0, 1}

\* What a destination slot holds before a vectored view fills it.
Untouched == <<-1>>
\* The content of a writable cell nothing was stored to.
Uninit == 0 - 1

\* usize::MAX
UsizeMax == 2 ^ WordBits - 1

\* x + y on usize. The exact sum may not fit the word: a build with overflow
\* checks panics there, a build without them wraps around.
usize_add(x, y) ==
    [val |-> (x + y) % (UsizeMax + 1), overflow |-> x + y > UsizeMax]

Min(x, y) == IF x <= y THEN x ELSE y

Drop(s, n) == SubSeq(s, n + 1, Len(s))

Take(s, n) == SubSeq(s, 1, n)

SeqsUpTo(S, n) == UNION {[1..k -> S] : k \in 0..n}

VARIABLES
    mode,      \* "buf": c is a Chain of read cursors; "bufmut": of write cursors
    c,         \* the Chain under test
    last,      \* the last call made on it: [op, n, count, out]
    viaChain,  \* bytes consumed by calls on the Chain itself
    viaFirst,  \* bytes consumed through first_mut()
    viaLast,   \* bytes consumed through last_mut()
    written,   \* the byte values put into a Chain of write cursors, in order
    iter,      \* the IntoIter wrapped around c, once into_iter() was called
    either,    \* an Either wrapped around a cursor
    direct,    \* the same cursor, called directly
    eret,      \* what the last call returned: through either, and on direct
    nest       \* three cursors chained both ways: (a, b), c and a, (b, c)

vars == <<mode, c, last, viaChain, viaFirst, viaLast, written, iter, either, direct,
          eret, nest>>

(***************************************************************************)
(* Read cursors.  A value is a "slice" leaf or a "chain" node; the Buf     *)
(* trait's methods dispatch on which.                                      *)
(***************************************************************************)
RECURSIVE remaining(_)
RECURSIVE bytes(_)
RECURSIVE advance(_, _)
RECURSIVE bytes_vectored(_, _)
RECURSIVE to_bytes(_)
RECURSIVE put(_, _)
RECURSIVE Panicked(_)
RECURSIVE Content(_)

\* A leaf read cursor over `data`, `pos` bytes of it consumed.
Slice(data) == [kind |-> "slice", data |-> data, pos |-> 0, panicked |-> FALSE]

Slice_remaining(x) == Len(x.data) - x.pos

Slice_bytes(x) == Drop(x.data, x.pos)

\* An advance past the end is the cursor's contract violation: it panics and
\* leaves the position where it was.
Slice_advance(x, cnt) ==
    IF cnt > Slice_remaining(x)
    THEN [x EXCEPT !.panicked = TRUE]
    ELSE [x EXCEPT !.pos = @ + cnt]

\* Buf::has_remaining, a provided method.
has_remaining(x) == remaining(x) > 0

\* Buf::bytes_vectored, the provided method a single-slice cursor keeps.
Slice_bytes_vectored(x, dst) ==
    IF dst = <<>>
    THEN [n |-> 0, dst |-> dst]
    ELSE IF has_remaining(x)
         THEN [n |-> 1, dst |-> [dst EXCEPT ![1] = bytes(x)]]
         ELSE [n |-> 0, dst |-> dst]

\* Buf::to_bytes of a leaf: hands out what is left and leaves the leaf empty.
Slice_to_bytes(x) ==
    [out |-> Slice_bytes(x), cur |-> [x EXCEPT !.pos = Len(x.data)]]

(***************************************************************************)
(* Chain<T, U> as a Buf (chain.rs, impl Buf for Chain).                    *)
(***************************************************************************)
Chain_new(a, b) == [kind |-> "chain", a |-> a, b |-> b]

\* The sum as the word holds it, and whether the addition overflows.
Chain_remaining(self) == usize_add(remaining(self.a), remaining(self.b)).val

Chain_remaining_overflows(self) ==
    usize_add(remaining(self.a), remaining(self.b)).overflow

\* Chain_bytes looking at the second segment first.
Chain_bytes_SecondFirst(self) ==
    IF has_remaining(self.b)
    THEN bytes(self.b)
    ELSE bytes(self.a)

\* Chain_bytes without the else branch: always the first segment's slice.
Chain_bytes_FirstOnly(self) == bytes(self.a)

Chain_bytes(self) ==
    IF has_remaining(self.a)
    THEN bytes(self.a)
    ELSE bytes(self.b)

\* Chain_advance without `cnt -= a_rem`: the second segment is advanced by
\* the whole count.
Chain_advance_NoCarry(self, cnt) ==
    LET a_rem == remaining(self.a) IN
    IF a_rem # 0
    THEN IF a_rem >= cnt
         THEN [self EXCEPT !.a = advance(self.a, cnt)]
         ELSE [self EXCEPT !.a = advance(self.a, a_rem),
                           !.b = advance(self.b, cnt)]
    ELSE [self EXCEPT !.b = advance(self.b, cnt)]

\* Chain_advance that leaves the first segment alone when the count is
\* larger than what the first segment holds.
Chain_advance_SkipFirst(self, cnt) ==
    LET a_rem == remaining(self.a) IN
    IF a_rem >= cnt /\ a_rem # 0
    THEN [self EXCEPT !.a = advance(self.a, cnt)]
    ELSE [self EXCEPT !.b = advance(self.b, cnt - a_rem)]

\* Chain_advance that clamps the count handed to the second segment to what
\* the second segment holds.
Chain_advance_Clamped(self, cnt) ==
    LET a_rem == remaining(self.a) IN
    IF a_rem # 0
    THEN IF a_rem >= cnt
         THEN [self EXCEPT !.a = advance(self.a, cnt)]
         ELSE [self EXCEPT !.a = advance(self.a, a_rem),
                           !.b = advance(self.b, Min(cnt - a_rem, remaining(self.b)))]
    ELSE [self EXCEPT !.b = advance(self.b, Min(cnt, remaining(self.b)))]

\* Chain_advance without the `return`: after advancing the first segment it
\* falls through and advances the second by the same count.
Chain_advance_NoReturn(self, cnt) ==
    LET a_rem == remaining(self.a) IN
    IF a_rem # 0
    THEN IF a_rem >= cnt
         THEN [self EXCEPT !.a = advance(self.a, cnt),
                           !.b = advance(self.b, cnt)]
         ELSE [self EXCEPT !.a = advance(self.a, a_rem),
                           !.b = advance(self.b, cnt - a_rem)]
    ELSE [self EXCEPT !.b = advance(self.b, cnt)]

Chain_advance(self, cnt) ==
    LET a_rem == remaining(self.a) IN
    IF a_rem # 0
    THEN IF a_rem >= cnt
         THEN [self EXCEPT !.a = advance(self.a, cnt)]
         ELSE [self EXCEPT !.a = advance(self.a, a_rem),
                           !.b = advance(self.b, cnt - a_rem)]
    ELSE [self EXCEPT !.b = advance(self.b, cnt)]

\* Chain_bytes_vectored handing the second segment `dst` instead of
\* `dst[n..]`.
Chain_bytes_vectored_SameSlots(self, dst) ==
    LET ra == bytes_vectored(self.a, dst)
        rb == bytes_vectored(self.b, ra.dst)
    IN  [n |-> ra.n + rb.n, dst |-> rb.dst]

Chain_bytes_vectored(self, dst) ==
    LET ra == bytes_vectored(self.a, dst)
        rb == bytes_vectored(self.b, Drop(ra.dst, ra.n))
    IN  [n |-> ra.n + rb.n, dst |-> Take(ra.dst, ra.n) \o rb.dst]

\* Chain_to_bytes that never appends the second segment.
Chain_to_bytes_FirstOnly(self) ==
    LET ra == to_bytes(self.a)
    IN  [out |-> ra.out, cur |-> [self EXCEPT !.a = ra.cur]]

Chain_to_bytes(self) ==
    LET ra == to_bytes(self.a)
        rb == put(ra.out, self.b)
    IN  [out |-> rb.out, cur |-> [self EXCEPT !.a = ra.cur, !.b = rb.cur]]

\* first_mut() and last_mut() hand out the segment itself; the caller's
\* advance on it is written back in place.
Chain_first_mut(self) == self.a

\* last_mut() handing out the first segment.
Chain_last_mut_First(self) == self.a

Chain_last_mut(self) == self.b

(***************************************************************************)
(* The Buf trait: dispatch on the cursor's type, and its provided put.     *)
(***************************************************************************)
remaining(x) ==
    IF x.kind = "chain" THEN Chain_remaining(x) ELSE Slice_remaining(x)

bytes(x) ==
    IF x.kind = "chain" THEN Chain_bytes(x) ELSE Slice_bytes(x)

advance(x, cnt) ==
    IF x.kind = "chain" THEN Chain_advance(x, cnt) ELSE Slice_advance(x, cnt)

bytes_vectored(x, dst) ==
    IF x.kind = "chain"
    THEN Chain_bytes_vectored(x, dst)
    ELSE Slice_bytes_vectored(x, dst)

to_bytes(x) ==
    IF x.kind = "chain" THEN Chain_to_bytes(x) ELSE Slice_to_bytes(x)

\* BufMut::put(src) on a growable buffer holding `out`: while src has bytes
\* left, append its current slice and advance src past it.
put(out, src) ==
    IF ~has_remaining(src)
    THEN [out |-> out, cur |-> src]
    ELSE LET s == bytes(src) IN put(out \o s, advance(src, Len(s)))

Panicked(x) ==
    IF x.kind = "chain" THEN Panicked(x.a) \/ Panicked(x.b) ELSE x.panicked

\* The bytes a cursor was built over, consumed or not.
Content(x) ==
    IF x.kind = "chain" THEN Content(x.a) \o Content(x.b) ELSE x.data

(***************************************************************************)
(* Write cursors.  A leaf is a buffer of fixed capacity: `mem` are its     *)
(* cells, the first `len` of them marked written; its cells sit at the     *)
(* addresses base .. base + capacity - 1.  A mutable slice is the pair of  *)
(* an address and a length.                                                *)
(***************************************************************************)
Buffer(base, cap) ==
    [kind |-> "buffer", base |-> base, mem |-> [i \in 1..cap |-> Uninit],
     len |-> 0, panicked |-> FALSE]

Buffer_remaining_mut(x) == Len(x.mem) - x.len

Buffer_bytes_mut(x) == [ptr |-> x.base + x.len, len |-> Buffer_remaining_mut(x)]

Buffer_advance_mut(x, cnt) ==
    IF cnt > Buffer_remaining_mut(x)
    THEN [x EXCEPT !.panicked = TRUE]
    ELSE [x EXCEPT !.len = @ + cnt]

\* BufMut::has_remaining_mut, a provided method.
has_remaining_mut(x) == Buffer_remaining_mut(x) > 0

\* BufMut::bytes_vectored_mut, the provided method.
Buffer_bytes_vectored_mut(x, dst) ==
    IF dst = <<>>
    THEN [n |-> 0, dst |-> dst]
    ELSE IF has_remaining_mut(x)
         THEN [n |-> 1, dst |-> [dst EXCEPT ![1] = Buffer_bytes_mut(x)]]
         ELSE [n |-> 0, dst |-> dst]

\* A store of v to the cell at address ptr, through a mutable slice.
Buffer_store(x, ptr, v) ==
    IF ptr >= x.base /\ ptr < x.base + Len(x.mem)
    THEN [x EXCEPT !.mem[ptr - x.base + 1] = v]
    ELSE x

\* The cells of a buffer that are marked written.
Filled(x) == Take(x.mem, x.len)

(***************************************************************************)
(* Chain<T, U> as a BufMut (chain.rs, impl BufMut for Chain).              *)
(***************************************************************************)
Chain_remaining_mut(self) ==
    usize_add(Buffer_remaining_mut(self.a), Buffer_remaining_mut(self.b)).val

Chain_remaining_mut_overflows(self) ==
    usize_add(Buffer_remaining_mut(self.a), Buffer_remaining_mut(self.b)).overflow

\* Chain_bytes_mut preferring the second segment.
Chain_bytes_mut_SecondFirst(self) ==
    IF has_remaining_mut(self.b)
    THEN Buffer_bytes_mut(self.b)
    ELSE Buffer_bytes_mut(self.a)

Chain_bytes_mut(self) ==
    IF has_remaining_mut(self.a)
    THEN Buffer_bytes_mut(self.a)
    ELSE Buffer_bytes_mut(self.b)

Chain_advance_mut(self, cnt) ==
    LET a_rem == Buffer_remaining_mut(self.a) IN
    IF a_rem # 0
    THEN IF a_rem >= cnt
         THEN [self EXCEPT !.a = Buffer_advance_mut(self.a, cnt)]
         ELSE [self EXCEPT !.a = Buffer_advance_mut(self.a, a_rem),
                           !.b = Buffer_advance_mut(self.b, cnt - a_rem)]
    ELSE [self EXCEPT !.b = Buffer_advance_mut(self.b, cnt)]

Chain_bytes_vectored_mut(self, dst) ==
    LET ra == Buffer_bytes_vectored_mut(self.a, dst)
        rb == Buffer_bytes_vectored_mut(self.b, Drop(ra.dst, ra.n))
    IN  [n |-> ra.n + rb.n, dst |-> Take(ra.dst, ra.n) \o rb.dst]

\* The store goes to whichever segment owns the address.
Chain_store(self, ptr, v) ==
    [self EXCEPT !.a = Buffer_store(self.a, ptr, v),
                 !.b = Buffer_store(self.b, ptr, v)]

\* BufMut::put_u8(v): the byte goes to the front of bytes_mut(), then
\* advance_mut(1) marks it written.
put_u8(self, v) ==
    Chain_advance_mut(Chain_store(self, Chain_bytes_mut(self).ptr, v), 1)

(***************************************************************************)
(* The calls a program makes on a Chain.                                   *)
(***************************************************************************)
NoCall == [op |-> "new", n |-> 0, count |-> 0, out |-> <<>>]

Call(op, n, count, out) == [op |-> op, n |-> n, count |-> count, out |-> out]

\* The slot content a vectored write view has not replaced.
UntouchedMut == [ptr |-> -1, len |-> 0]

InitBuf ==
    /\ mode = "buf"
    /\ \E da \in SeqsUpTo(Byte, MaxLen), db \in SeqsUpTo(Byte, MaxLen) :
           c = Chain_new(Slice(da), Slice(db))

InitBufMut ==
    /\ mode = "bufmut"
    /\ \E ca \in 0..MaxCap, cb \in 0..MaxCap :
           c = Chain_new(Buffer(0, ca), Buffer(ca, cb))

\* No nested chains are in play.
NoNest == [l |-> <<>>, r |-> <<>>, lret |-> <<>>, rret |-> <<>>]

\* No iterator was made of the chain.
NoIter == [on |-> FALSE, start |-> <<>>, items |-> <<>>, done |-> FALSE]

\* No Either is in play.
NoEither == [tag |-> "None", val |-> Slice(<<>>)]

NoRet == [op |-> "new", via |-> <<>>, direct |-> <<>>]

Init ==
    /\ InitBuf \/ InitBufMut
    /\ last = NoCall
    /\ viaChain = 0
    /\ viaFirst = 0
    /\ viaLast = 0
    /\ written = <<>>
    /\ iter = NoIter
    /\ either = NoEither
    /\ direct = NoEither.val
    /\ eret = NoRet
    /\ nest = NoNest

\* A panic ends the program: nothing is called on the chain afterwards.
Live == ~Panicked(c)

\* The counts a caller may pass: every one in range, and one past it.
Counts == 0..(2 * MaxLen + 1)

CountsMut == 0..(2 * MaxCap + 1)

Advance(cnt) ==
    /\ mode = "buf"
    /\ Live
    /\ c' = Chain_advance(c, cnt)
    /\ last' = Call("advance", cnt, 0, <<>>)
    /\ viaChain' = viaChain + cnt
    /\ UNCHANGED <<iter, either, direct, eret, nest>>
    /\ UNCHANGED <<mode, viaFirst, viaLast, written>>

BytesCall ==
    /\ mode = "buf"
    /\ Live
    /\ last' = Call("bytes", 0, 0, <<Chain_bytes(c)>>)
    /\ UNCHANGED <<iter, either, direct, eret, nest>>
    /\ UNCHANGED <<mode, c, viaChain, viaFirst, viaLast, written>>

BytesVectored(d) ==
    /\ mode = "buf"
    /\ Live
    /\ LET r == Chain_bytes_vectored(c, [i \in 1..d |-> Untouched])
       IN  last' = Call("bytes_vectored", d, r.n, r.dst)
    /\ UNCHANGED <<iter, either, direct, eret, nest>>
    /\ UNCHANGED <<mode, c, viaChain, viaFirst, viaLast, written>>

ToBytes ==
    /\ mode = "buf"
    /\ Live
    /\ LET r == Chain_to_bytes(c)
       IN  /\ c' = r.cur
           /\ last' = Call("to_bytes", 0, 0, <<r.out>>)
    /\ viaChain' = viaChain + Chain_remaining(c)
    /\ UNCHANGED <<iter, either, direct, eret, nest>>
    /\ UNCHANGED <<mode, viaFirst, viaLast, written>>

\* buf.first_mut().advance(cnt)
FirstMutAdvance(cnt) ==
    /\ mode = "buf"
    /\ Live
    /\ c' = [c EXCEPT !.a = advance(Chain_first_mut(c), cnt)]
    /\ last' = Call("first_mut", cnt, 0, <<>>)
    /\ viaFirst' = viaFirst + cnt
    /\ UNCHANGED <<iter, either, direct, eret, nest>>
    /\ UNCHANGED <<mode, viaChain, viaLast, written>>

\* buf.last_mut().advance(cnt)
LastMutAdvance(cnt) ==
    /\ mode = "buf"
    /\ Live
    /\ c' = [c EXCEPT !.b = advance(Chain_last_mut(c), cnt)]
    /\ last' = Call("last_mut", cnt, 0, <<>>)
    /\ viaLast' = viaLast + cnt
    /\ UNCHANGED <<iter, either, direct, eret, nest>>
    /\ UNCHANGED <<mode, viaChain, viaFirst, written>>

\* buf.put_u8(v), which needs room for the byte.
PutU8(v) ==
    /\ mode = "bufmut"
    /\ Live
    /\ Chain_remaining_mut(c) >= 1
    /\ c' = put_u8(c, v)
    /\ last' = Call("put_u8", v, 0, <<>>)
    /\ viaChain' = viaChain + 1
    /\ written' = Append(written, v)
    /\ UNCHANGED <<iter, either, direct, eret, nest>>
    /\ UNCHANGED <<mode, viaFirst, viaLast>>

\* advance_mut(cnt) over cells the caller has not stored to.
AdvanceMut(cnt) ==
    /\ mode = "bufmut"
    /\ Live
    /\ c' = Chain_advance_mut(c, cnt)
    /\ last' = Call("advance_mut", cnt, 0, <<>>)
    /\ viaChain' = viaChain + cnt
    /\ UNCHANGED <<iter, either, direct, eret, nest>>
    /\ UNCHANGED <<mode, viaFirst, viaLast, written>>

BytesMutCall ==
    /\ mode = "bufmut"
    /\ Live
    /\ last' = Call("bytes_mut", 0, 0, <<Chain_bytes_mut(c)>>)
    /\ UNCHANGED <<iter, either, direct, eret, nest>>
    /\ UNCHANGED <<mode, c, viaChain, viaFirst, viaLast, written>>

BytesVectoredMut(d) ==
    /\ mode = "bufmut"
    /\ Live
    /\ LET r == Chain_bytes_vectored_mut(c, [i \in 1..d |-> UntouchedMut])
       IN  last' = Call("bytes_vectored_mut", d, r.n, r.dst)
    /\ UNCHANGED <<iter, either, direct, eret, nest>>
    /\ UNCHANGED <<mode, c, viaChain, viaFirst, viaLast, written>>

Next ==
    \/ \E cnt \in Counts : Advance(cnt)
    \/ BytesCall
    \/ \E d \in 0..MaxSlots : BytesVectored(d)
    \/ ToBytes
    \/ \E cnt \in Counts : FirstMutAdvance(cnt)
    \/ \E cnt \in Counts : LastMutAdvance(cnt)
    \/ \E v \in Byte : PutU8(v)
    \/ \E cnt \in CountsMut : AdvanceMut(cnt)
    \/ BytesMutCall
    \/ \E d \in 0..MaxSlots : BytesVectoredMut(d)

Spec == Init /\ [][Next]_vars

RECURSIVE Unconsumed(_)
\* The bytes a cursor has not consumed yet, read off its leaves.
Unconsumed(x) ==
    IF x.kind = "chain"
    THEN Unconsumed(x.a) \o Unconsumed(x.b)
    ELSE Drop(x.data, x.pos)

(***************************************************************************)
(* Iterating a Chain: chain.into_iter() wraps it in an IntoIter, whose     *)
(* next() takes the first byte of bytes() and advances by one.             *)
(***************************************************************************)
IntoIter_new(inner) ==
    [on |-> TRUE, start |-> Unconsumed(inner), items |-> <<>>, done |-> FALSE]

\* impl IntoIterator for Chain
Chain_into_iter(self) == IntoIter_new(self)

\* Iterator::next of IntoIter: None, here <<>>, when nothing remains.
IntoIter_next(inner) ==
    IF ~has_remaining(inner)
    THEN [item |-> <<>>, inner |-> inner]
    ELSE [item |-> <<bytes(inner)[1]>>, inner |-> advance(inner, 1)]

\* A chain a program may hold when it calls into_iter(): any contents, each
\* segment consumed to any point.
InitIter ==
    /\ mode = "buf"
    /\ \E da \in SeqsUpTo(Byte, MaxLen), db \in SeqsUpTo(Byte, MaxLen) :
       \E pa \in 0..Len(da), pb \in 0..Len(db) :
           /\ c = Chain_new([Slice(da) EXCEPT !.pos = pa],
                            [Slice(db) EXCEPT !.pos = pb])
           /\ viaFirst = pa
           /\ viaLast = pb
    /\ iter = Chain_into_iter(c)
    /\ last = Call("into_iter", 0, 0, <<>>)
    /\ viaChain = 0
    /\ written = <<>>
    /\ either = NoEither
    /\ direct = NoEither.val
    /\ eret = NoRet
    /\ nest = NoNest

\* One pull.  After a None the iterator stays exhausted.
IterNext ==
    /\ iter.on
    /\ LET r == IntoIter_next(c)
       IN  /\ c' = r.inner
           /\ last' = Call("next", 0, Len(r.item), <<r.item>>)
           /\ iter' = [iter EXCEPT !.items = @ \o r.item,
                                   !.done = (r.item = <<>>)]
           /\ viaChain' = viaChain + Len(r.item)
    /\ UNCHANGED <<mode, viaFirst, viaLast, written, either, direct, eret, nest>>

NextIter == IterNext

\* The loop that drives an iterator (collect, for) keeps pulling until None.
SpecIter == InitIter /\ [][NextIter]_vars /\ WF_vars(IterNext)

(***************************************************************************)
(* Measures the properties below are stated with.                          *)
(***************************************************************************)
\* Only calls on the chain itself have consumed anything.
OnlyChainCalls == viaFirst = 0 /\ viaLast = 0

\* The second segment has been consumed since construction.
SecondConsumed ==
    IF mode = "buf" THEN c.b.pos > 0 ELSE c.b.len > 0

FirstDrained ==
    IF mode = "buf"
    THEN Slice_remaining(c.a) = 0
    ELSE Buffer_remaining_mut(c.a) = 0

(***************************************************************************)
(* Buf and BufMut for Either<L, R> (either.rs): every method matches on    *)
(* the variant and calls the same method on the cursor inside.  The        *)
(* cursors inside are leaves: a Slice on the read side, a Buffer on the    *)
(* write side.                                                             *)
(***************************************************************************)
Left(b) == [tag |-> "Left", val |-> b]

Right(b) == [tag |-> "Right", val |-> b]

\* Buf::copy_to_slice into a destination of n bytes (a provided method): it
\* asserts that n bytes remain, copies them out and advances past them.
Slice_copy_to_slice(b, n) ==
    IF n > Slice_remaining(b)
    THEN [out |-> <<>>, cur |-> [b EXCEPT !.panicked = TRUE]]
    ELSE [out |-> SubSeq(b.data, b.pos + 1, b.pos + n),
          cur |-> [b EXCEPT !.pos = @ + n]]

\* BufMut::put_slice (a provided method): it asserts that src fits, stores
\* src at the write position and advances past it.
Buffer_put_slice(b, src) ==
    IF Len(src) > Buffer_remaining_mut(b)
    THEN [b EXCEPT !.panicked = TRUE]
    ELSE [b EXCEPT !.mem = [i \in 1..Len(b.mem) |->
                               IF i > b.len /\ i <= b.len + Len(src)
                               THEN src[i - b.len]
                               ELSE b.mem[i]],
                   !.len = @ + Len(src)]

Either_remaining(self) ==
    CASE self.tag = "Left" -> Slice_remaining(self.val)
      [] self.tag = "Right" -> Slice_remaining(self.val)

\* Either_bytes whose Right arm answers with an empty slice.
Either_bytes_RightEmpty(self) ==
    CASE self.tag = "Left" -> Slice_bytes(self.val)
      [] self.tag = "Right" -> <<>>

Either_bytes(self) ==
    CASE self.tag = "Left" -> Slice_bytes(self.val)
      [] self.tag = "Right" -> Slice_bytes(self.val)

Either_bytes_vectored(self, dst) ==
    CASE self.tag = "Left" -> Slice_bytes_vectored(self.val, dst)
      [] self.tag = "Right" -> Slice_bytes_vectored(self.val, dst)

\* Either_advance whose Right arm does not forward the call.
Either_advance_RightDropped(self, cnt) ==
    CASE self.tag = "Left" -> [self EXCEPT !.val = Slice_advance(self.val, cnt)]
      [] self.tag = "Right" -> self

Either_advance(self, cnt) ==
    CASE self.tag = "Left" -> [self EXCEPT !.val = Slice_advance(self.val, cnt)]
      [] self.tag = "Right" -> [self EXCEPT !.val = Slice_advance(self.val, cnt)]

Either_copy_to_slice(self, n) ==
    CASE self.tag = "Left" ->
             LET r == Slice_copy_to_slice(self.val, n)
             IN  [out |-> r.out, cur |-> [self EXCEPT !.val = r.cur]]
      [] self.tag = "Right" ->
             LET r == Slice_copy_to_slice(self.val, n)
             IN  [out |-> r.out, cur |-> [self EXCEPT !.val = r.cur]]

Either_remaining_mut(self) ==
    CASE self.tag = "Left" -> Buffer_remaining_mut(self.val)
      [] self.tag = "Right" -> Buffer_remaining_mut(self.val)

Either_bytes_mut(self) ==
    CASE self.tag = "Left" -> Buffer_bytes_mut(self.val)
      [] self.tag = "Right" -> Buffer_bytes_mut(self.val)

Either_bytes_vectored_mut(self, dst) ==
    CASE self.tag = "Left" -> Buffer_bytes_vectored_mut(self.val, dst)
      [] self.tag = "Right" -> Buffer_bytes_vectored_mut(self.val, dst)

Either_advance_mut(self, cnt) ==
    CASE self.tag = "Left" -> [self EXCEPT !.val = Buffer_advance_mut(self.val, cnt)]
      [] self.tag = "Right" -> [self EXCEPT !.val = Buffer_advance_mut(self.val, cnt)]

Either_put_slice(self, src) ==
    CASE self.tag = "Left" -> [self EXCEPT !.val = Buffer_put_slice(self.val, src)]
      [] self.tag = "Right" -> [self EXCEPT !.val = Buffer_put_slice(self.val, src)]

\* What a call returned through the Either, and what it returned on the
\* cursor called directly.
Ret(op, via, dir) == [op |-> op, via |-> via, direct |-> dir]

\* The chain is not in play while an Either is exercised.
ChainIdle ==
    /\ mode = "either"
    /\ c = Chain_new(Slice(<<>>), Slice(<<>>))
    /\ last = NoCall
    /\ viaChain = 0
    /\ viaFirst = 0
    /\ viaLast = 0
    /\ written = <<>>
    /\ iter = NoIter

chainVars == <<mode, c, last, viaChain, viaFirst, viaLast, written, iter, nest>>

\* Either::Left(b) or Either::Right(b) around a read cursor or a write
\* cursor b, and b itself beside it.
InitEither ==
    /\ ChainIdle
    /\ \E b \in {Slice(d) : d \in SeqsUpTo(Byte, MaxLen)}
               \cup {Buffer(0, cap) : cap \in 0..MaxCap} :
           /\ either \in {Left(b), Right(b)}
           /\ direct = b
    /\ eret = NoRet
    /\ nest = NoNest

ReadSide == either.val.kind = "slice" /\ ~either.val.panicked /\ ~direct.panicked

WriteSide == either.val.kind = "buffer" /\ ~either.val.panicked /\ ~direct.panicked

ERemaining ==
    /\ ReadSide
    /\ eret' = Ret("remaining", <<Either_remaining(either)>>,
                   <<Slice_remaining(direct)>>)
    /\ UNCHANGED <<either, direct, chainVars>>

EBytes ==
    /\ ReadSide
    /\ eret' = Ret("bytes", <<Either_bytes(either)>>, <<Slice_bytes(direct)>>)
    /\ UNCHANGED <<either, direct, chainVars>>

EBytesVectored(d) ==
    /\ ReadSide
    /\ LET dst == [i \in 1..d |-> Untouched]
           rv  == Either_bytes_vectored(either, dst)
           rd  == Slice_bytes_vectored(direct, dst)
       IN  eret' = Ret("bytes_vectored", <<rv.n, rv.dst>>, <<rd.n, rd.dst>>)
    /\ UNCHANGED <<either, direct, chainVars>>

EAdvance(cnt) ==
    /\ ReadSide
    /\ either' = Either_advance(either, cnt)
    /\ direct' = Slice_advance(direct, cnt)
    /\ eret' = Ret("advance", <<>>, <<>>)
    /\ UNCHANGED chainVars

ECopyToSlice(n) ==
    /\ ReadSide
    /\ LET rv == Either_copy_to_slice(either, n)
           rd == Slice_copy_to_slice(direct, n)
       IN  /\ either' = rv.cur
           /\ direct' = rd.cur
           /\ eret' = Ret("copy_to_slice", <<rv.out>>, <<rd.out>>)
    /\ UNCHANGED chainVars

ERemainingMut ==
    /\ WriteSide
    /\ eret' = Ret("remaining_mut", <<Either_remaining_mut(either)>>,
                   <<Buffer_remaining_mut(direct)>>)
    /\ UNCHANGED <<either, direct, chainVars>>

EBytesMut ==
    /\ WriteSide
    /\ eret' = Ret("bytes_mut", <<Either_bytes_mut(either)>>,
                   <<Buffer_bytes_mut(direct)>>)
    /\ UNCHANGED <<either, direct, chainVars>>

EBytesVectoredMut(d) ==
    /\ WriteSide
    /\ LET dst == [i \in 1..d |-> UntouchedMut]
           rv  == Either_bytes_vectored_mut(either, dst)
           rd  == Buffer_bytes_vectored_mut(direct, dst)
       IN  eret' = Ret("bytes_vectored_mut", <<rv.n, rv.dst>>, <<rd.n, rd.dst>>)
    /\ UNCHANGED <<either, direct, chainVars>>

EAdvanceMut(cnt) ==
    /\ WriteSide
    /\ either' = Either_advance_mut(either, cnt)
    /\ direct' = Buffer_advance_mut(direct, cnt)
    /\ eret' = Ret("advance_mut", <<>>, <<>>)
    /\ UNCHANGED chainVars

EPutSlice(src) ==
    /\ WriteSide
    /\ either' = Either_put_slice(either, src)
    /\ direct' = Buffer_put_slice(direct, src)
    /\ eret' = Ret("put_slice", <<>>, <<>>)
    /\ UNCHANGED chainVars

NextEither ==
    \/ ERemaining
    \/ EBytes
    \/ \E d \in 0..MaxSlots : EBytesVectored(d)
    \/ \E cnt \in 0..(MaxLen + 1) : EAdvance(cnt)
    \/ \E n \in 0..(MaxLen + 1) : ECopyToSlice(n)
    \/ ERemainingMut
    \/ EBytesMut
    \/ \E d \in 0..MaxSlots : EBytesVectoredMut(d)
    \/ \E cnt \in 0..(MaxCap + 1) : EAdvanceMut(cnt)
    \/ \E src \in SeqsUpTo(Byte, MaxCap + 1) : EPutSlice(src)

SpecEither == InitEither /\ [][NextEither]_vars

(***************************************************************************)
(* Nesting: three cursors a, b, c chained as Chain(Chain(a, b), c) and as  *)
(* Chain(a, Chain(b, c)), with the same calls made on both.                *)
(***************************************************************************)
NestBoth(l, r, lret, rret) == [l |-> l, r |-> r, lret |-> lret, rret |-> rret]

\* Only the two nested chains are in play.
NestIdle ==
    /\ mode = "nest"
    /\ c = Chain_new(Slice(<<>>), Slice(<<>>))
    /\ viaFirst = 0
    /\ viaLast = 0
    /\ written = <<>>
    /\ iter = NoIter
    /\ either = NoEither
    /\ direct = NoEither.val
    /\ eret = NoRet

InitNest ==
    /\ NestIdle
    /\ last = NoCall
    /\ viaChain = 0
    /\ \E da \in SeqsUpTo(Byte, MaxLen), db \in SeqsUpTo(Byte, MaxLen),
          dc \in SeqsUpTo(Byte, MaxLen) :
           nest = NestBoth(Chain_new(Chain_new(Slice(da), Slice(db)), Slice(dc)),
                           Chain_new(Slice(da), Chain_new(Slice(db), Slice(dc))),
                           <<>>, <<>>)

nestFrame == <<mode, c, viaFirst, viaLast, written, iter, either, direct, eret>>

NestLive == ~Panicked(nest.l) /\ ~Panicked(nest.r)

NestCounts == 0..(3 * MaxLen + 1)

NestAdvance(cnt) ==
    /\ NestLive
    /\ nest' = NestBoth(Chain_advance(nest.l, cnt), Chain_advance(nest.r, cnt),
                        <<>>, <<>>)
    /\ last' = Call("advance", cnt, 0, <<>>)
    /\ viaChain' = viaChain + cnt
    /\ UNCHANGED nestFrame

NestRemaining ==
    /\ NestLive
    /\ nest' = [nest EXCEPT !.lret = <<Chain_remaining(nest.l)>>,
                            !.rret = <<Chain_remaining(nest.r)>>]
    /\ last' = Call("remaining", 0, 0, <<>>)
    /\ UNCHANGED <<viaChain, nestFrame>>

NestBytes ==
    /\ NestLive
    /\ nest' = [nest EXCEPT !.lret = <<Chain_bytes(nest.l)>>,
                            !.rret = <<Chain_bytes(nest.r)>>]
    /\ last' = Call("bytes", 0, 0, <<>>)
    /\ UNCHANGED <<viaChain, nestFrame>>

NestToBytes ==
    /\ NestLive
    /\ LET rl == Chain_to_bytes(nest.l)
           rr == Chain_to_bytes(nest.r)
       IN  nest' = NestBoth(rl.cur, rr.cur, <<rl.out>>, <<rr.out>>)
    /\ last' = Call("to_bytes", 0, 0, <<>>)
    /\ viaChain' = viaChain + Chain_remaining(nest.l)
    /\ UNCHANGED nestFrame

NextNest ==
    \/ \E cnt \in NestCounts : NestAdvance(cnt)
    \/ NestRemaining
    \/ NestBytes
    \/ NestToBytes

SpecNest == InitNest /\ [][NextNest]_vars

(***************************************************************************)
(* Size queries over segments of any size a word can hold.  Only the sizes *)
(* matter, so every byte is zero.  The addition in remaining() and         *)
(* remaining_mut() is the plain + of usize: when the exact sum does not    *)
(* fit, the call panics if the build checks overflow and returns the       *)
(* wrapped sum if it does not.                                             *)
(***************************************************************************)
Zeros(n) == [i \in 1..n |-> 0]

\* What last.out holds after a call that panicked in the addition.
Overflowed == <<>>

InitSize ==
    /\ \E na \in 0..UsizeMax, nb \in 0..UsizeMax :
           \/ mode = "buf" /\ c = Chain_new(Slice(Zeros(na)), Slice(Zeros(nb)))
           \/ mode = "bufmut" /\ c = Chain_new(Buffer(0, na), Buffer(na, nb))
    /\ last = NoCall
    /\ viaChain = 0
    /\ viaFirst = 0
    /\ viaLast = 0
    /\ written = <<>>
    /\ iter = NoIter
    /\ either = NoEither
    /\ direct = NoEither.val
    /\ eret = NoRet
    /\ nest = NoNest

sizeFrame ==
    <<mode, c, viaChain, viaFirst, viaLast, written, iter, either, direct, eret, nest>>

\* remaining() takes &self: the chain is left as it was.
RemainingCall(overflow_checks) ==
    /\ mode = "buf"
    /\ last' = IF overflow_checks /\ Chain_remaining_overflows(c)
               THEN Call("remaining", 0, 0, Overflowed)
               ELSE Call("remaining", 0, 0, <<Chain_remaining(c)>>)
    /\ UNCHANGED sizeFrame

RemainingMutCall(overflow_checks) ==
    /\ mode = "bufmut"
    /\ last' = IF overflow_checks /\ Chain_remaining_mut_overflows(c)
               THEN Call("remaining_mut", 0, 0, Overflowed)
               ELSE Call("remaining_mut", 0, 0, <<Chain_remaining_mut(c)>>)
    /\ UNCHANGED sizeFrame

NextSize ==
    \/ \E overflow_checks \in BOOLEAN : RemainingCall(overflow_checks)
    \/ \E overflow_checks \in BOOLEAN : RemainingMutCall(overflow_checks)

SpecSize == InitSize /\ [][NextSize]_vars

(***************************************************************************)
(* Properties.                                                             *)
(***************************************************************************)

\* C1: after any sequence of in-range advances on Chain(A, B) whose counts sum
\* to n, the bytes still readable are content(A) ++ content(B) without its
\* first n bytes, and remaining() is the original total less n.
C1_AdvanceDropsPrefix ==
    (mode = "buf" /\ Live /\ OnlyChainCalls) =>
        /\ Unconsumed(c) = Drop(Content(c), viaChain)
        /\ Chain_remaining(c) = Len(Content(c)) - viaChain

\* A single advance that crosses from a non-empty first segment into the
\* second one.
C1_Witness ==
    /\ mode = "buf" /\ Live /\ OnlyChainCalls
    /\ last.op = "advance" /\ last.n = viaChain
    /\ Len(c.a.data) > 0 /\ last.n > Len(c.a.data)
    /\ Chain_remaining(c) > 0

\* C2 as stated: whatever public operation was used, first_mut() and
\* last_mut() included, the second segment is consumed only once the first
\* has nothing left.
C2_AsStated == SecondConsumed => FirstDrained

\* C2: as long as nothing was consumed through last_mut(), the second segment
\* is consumed only once the first has nothing left.
C2_FirstDrainedBeforeSecond ==
    (viaLast = 0 /\ SecondConsumed) => FirstDrained

\* The chain's own advance has gone through a non-empty first segment into
\* the second.
C2_Witness ==
    /\ mode = "buf" /\ viaLast = 0 /\ Live
    /\ Len(c.a.data) > 0 /\ c.b.pos > 0

\* C3: to_bytes() returns first's unconsumed bytes followed by second's (all
\* of content(A) ++ content(B) on a fresh chain) and leaves both segments
\* drained, remaining() = 0.
C3_ToBytesReturnsUnconsumed ==
    [][last'.op = "to_bytes" =>
          /\ last'.out = <<Unconsumed(c)>>
          /\ (OnlyChainCalls => last'.out = <<Drop(Content(c), viaChain)>>)
          /\ Chain_remaining(c') = 0
          /\ Slice_remaining(c'.a) = 0
          /\ Slice_remaining(c'.b) = 0]_vars

\* to_bytes() after an advance, returning bytes of both segments.
C3_Witness ==
    /\ mode = "buf" /\ last.op = "to_bytes" /\ OnlyChainCalls
    /\ Len(last.out[1]) < Len(Content(c))
    /\ Len(last.out[1]) > Len(c.b.data)
    /\ Len(c.b.data) > 0
    /\ Chain_remaining(c) = 0

\* Only put_u8 has advanced the chain's write position.
OnlyPuts == mode = "bufmut" /\ Live /\ viaChain = Len(written)

\* C4: after k bytes were written one at a time into a chain of buffers with
\* capacities ca and cb, k <= ca + cb, first holds the first min(k, ca) of
\* them in order and second the rest in order; a cell no byte went to is
\* still unwritten, so second is untouched until first is full.
C4_WritesFillFirstThenSecond ==
    OnlyPuts =>
        LET k  == Len(written)
            ca == Len(c.a.mem)
        IN  /\ Filled(c.a) = Take(written, Min(k, ca))
            /\ Filled(c.b) = Drop(written, Min(k, ca))
            /\ \A i \in (c.a.len + 1)..Len(c.a.mem) : c.a.mem[i] = Uninit
            /\ \A i \in (c.b.len + 1)..Len(c.b.mem) : c.b.mem[i] = Uninit
            /\ (c.a.len < ca => c.b.len = 0)

\* Both buffers written full, two bytes each, with both byte values.
C4_Witness ==
    /\ OnlyPuts /\ last.op = "put_u8"
    /\ Len(c.a.mem) = 2 /\ Len(c.b.mem) = 2
    /\ Len(written) = 4
    /\ written[1] # written[2] /\ written[3] # written[4]

\* The segments' non-empty unconsumed slices, first's before second's.
NonEmptySlices ==
    SelectSeq(<<Unconsumed(c.a), Unconsumed(c.b)>>, LAMBDA sl : sl # <<>>)

\* C5: bytes_vectored over d slots fills the leading slots with first's
\* unconsumed slice and then second's, skipping a segment that has nothing
\* left, leaves the other slots as they were and returns the number filled:
\* min(d, number of segments with remaining > 0).
C5_VectoredFillsInOrder ==
    (mode = "buf" /\ last.op = "bytes_vectored") =>
        LET d == last.n
            n == last.count
        IN  /\ Len(last.out) = d
            /\ n <= d
            /\ n = Min(d, Len(NonEmptySlices))
            /\ \A i \in 1..n : last.out[i] = NonEmptySlices[i] /\ last.out[i] # <<>>
            /\ \A i \in (n + 1)..d : last.out[i] = Untouched

\* Three slots offered after an advance into first: two filled, the rest of
\* first and the whole of second.
C5_Witness ==
    /\ mode = "buf" /\ Live /\ OnlyChainCalls
    /\ last.op = "bytes_vectored" /\ last.n = 3 /\ last.count = 2
    /\ c.a.pos = 1 /\ Len(c.a.data) = 2 /\ c.b.pos = 0
    /\ last.out[3] = Untouched

\* C8: right after advance(remaining(A)) on a fresh Chain(A, B), bytes() is
\* all of B; and once first has nothing left, an advance made on the chain
\* leaves first exactly as it is.
C8_FirstNeverRevisited ==
    /\ [](  (/\ mode = "buf" /\ Live /\ OnlyChainCalls
             /\ last.op = "advance" /\ last.n = viaChain
             /\ last.n = Len(c.a.data))
          => Chain_bytes(c) = c.b.data)
    /\ [][(mode = "buf" /\ Slice_remaining(c.a) = 0 /\ last'.op = "advance")
            => c'.a = c.a]_vars

\* A second advance on the chain, made after first was drained by
\* advance(remaining(A)).
C8_Witness ==
    /\ mode = "buf" /\ Live /\ OnlyChainCalls
    /\ last.op = "advance" /\ last.n > 0
    /\ Len(c.a.data) > 0
    /\ viaChain = Len(c.a.data) + last.n

\* C9: with nothing consumed through the chain itself, after
\* first_mut().advance(i) and last_mut().advance(j) in any order remaining()
\* is (remaining(A) - i) + (remaining(B) - j) and to_bytes() returns
\* content(A)[i..] ++ content(B)[j..].
C9_AccessorsAreObserved ==
    /\ [](  (mode = "buf" /\ Live /\ viaChain = 0)
          => Chain_remaining(c) =
                 (Len(c.a.data) - viaFirst) + (Len(c.b.data) - viaLast))
    /\ [][(mode = "buf" /\ viaChain = 0 /\ last'.op = "to_bytes")
            => last'.out = <<Drop(c.a.data, viaFirst) \o Drop(c.b.data, viaLast)>>]_vars

\* to_bytes() after last_mut().advance(1) and then first_mut().advance(1).
C9_Witness ==
    /\ mode = "buf" /\ last.op = "to_bytes"
    /\ viaFirst = 1 /\ viaLast = 1
    /\ viaChain = Len(last.out[1])
    /\ Len(last.out[1]) = 2

\* The cell the next written byte goes to, by address: first's cells come
\* before second's.
NextCell == c.a.base + viaChain

\* C10: on a chain only advanced through itself and in range, remaining() > 0
\* makes bytes() non-empty, starting at the next unconsumed byte of
\* content(A) ++ content(B); bytes() is first's slice while first has bytes
\* left and second's after.  On the write side remaining_mut() > 0 makes
\* bytes_mut() non-empty, starting at the next unwritten cell.
C10_BytesIsNextUnconsumed ==
    /\ (mode = "buf" /\ Live /\ OnlyChainCalls /\ Chain_remaining(c) > 0) =>
           /\ Chain_bytes(c) # <<>>
           /\ Chain_bytes(c)[1] = Content(c)[viaChain + 1]
           /\ Chain_bytes(c) =
                  IF c.a.pos < Len(c.a.data)
                  THEN Drop(c.a.data, c.a.pos)
                  ELSE Drop(c.b.data, c.b.pos)
    /\ (mode = "bufmut" /\ Live /\ Chain_remaining_mut(c) > 0) =>
           /\ Chain_bytes_mut(c).len > 0
           /\ Chain_bytes_mut(c).ptr = NextCell
           /\ Chain_bytes_mut(c).len =
                  IF c.a.len < Len(c.a.mem)
                  THEN Len(c.a.mem) - c.a.len
                  ELSE Len(c.b.mem) - c.b.len

\* bytes() called with first drained and second partly consumed.
C10_Witness ==
    /\ mode = "buf" /\ Live /\ OnlyChainCalls
    /\ last.op = "bytes" /\ last.out[1] # <<>>
    /\ Len(c.a.data) = 2 /\ c.a.pos = 2 /\ c.b.pos = 1

\* bytes_mut() called with first full and second partly written.
C10_WitnessMut ==
    /\ mode = "bufmut" /\ Live
    /\ last.op = "bytes_mut" /\ last.out[1].len > 0
    /\ Len(c.a.mem) = 2 /\ c.a.len = 2 /\ c.b.len = 1

\* C6: an iterator made of a chain with remaining() = k yields the k
\* unconsumed bytes in order, first's and then second's, and never more; it
\* reports the end only when remaining() is 0, and it always reaches the end.
C6_IterYieldsAllThenEnds ==
    /\ [](iter.on =>
            /\ Len(iter.items) <= Len(iter.start)
            /\ iter.items = Take(iter.start, Len(iter.items))
            /\ Len(iter.items) + Chain_remaining(c) = Len(iter.start)
            /\ (iter.done => (iter.items = iter.start /\ Chain_remaining(c) = 0)))
    /\ [][(iter.on /\ Chain_remaining(c) > 0) => ~iter'.done]_vars
    /\ <>(iter.on /\ iter.done)

\* An iterator that ran to its end over three bytes, from both segments.
C6_Witness ==
    /\ iter.on /\ iter.done
    /\ Len(iter.items) = 3
    /\ Len(c.a.data) = 2 /\ Len(c.b.data) = 2
    /\ viaFirst = 1 /\ viaLast = 0

\* C7: whatever sequence of cursor calls is made, the cursor inside
\* Either::Left(x) or Either::Right(x) is in the state x reaches when called
\* directly, a panic of it included; each call returns what it returns on
\* x; and the variant never changes.
C7_EitherIsTransparent ==
    /\ [](either.tag # "None" =>
            /\ either.val = direct
            /\ eret.via = eret.direct)
    /\ [][either'.tag = either.tag]_vars

\* bytes() through Either::Right, after an advance through it.
C7_Witness ==
    /\ either.tag = "Right" /\ either.val.kind = "slice"
    /\ either.val.pos = 1
    /\ eret.op = "bytes" /\ eret.via = <<Drop(direct.data, 1)>>
    /\ Len(direct.data) = 2

\* An out-of-range advance through Either::Left: the cursor's own panic.
C7_WitnessPanic ==
    /\ either.tag = "Left" /\ either.val.kind = "slice"
    /\ eret.op = "advance" /\ either.val.panicked

\* put_slice through Either::Left has filled the buffer inside.
C7_WitnessMut ==
    /\ either.tag = "Left" /\ either.val.kind = "buffer"
    /\ eret.op = "put_slice" /\ either.val.len = 2 /\ Len(either.val.mem) = 2

\* C12: an advance (advance_mut) with a count above the chain's remaining()
\* (remaining_mut()) is not clamped: it reaches the second segment with more
\* than that segment holds, so the second segment panics where it stands;
\* and no advance made on the chain ever makes the first segment panic.
C12_OutOfRangeReachesSecond ==
    [][/\ (mode = "buf" /\ last'.op = "advance") =>
              /\ ~c'.a.panicked
              /\ (last'.n > Chain_remaining(c) =>
                      (c'.b.panicked /\ c'.b.pos = c.b.pos))
              /\ (last'.n <= Chain_remaining(c) => ~c'.b.panicked)
       /\ (mode = "bufmut" /\ last'.op = "advance_mut") =>
              /\ ~c'.a.panicked
              /\ (last'.n > Chain_remaining_mut(c) =>
                      (c'.b.panicked /\ c'.b.len = c.b.len))
              /\ (last'.n <= Chain_remaining_mut(c) => ~c'.b.panicked)]_vars

\* advance_mut with a count above remaining_mut(), on a chain whose first
\* buffer had room: the second buffer has panicked.
C12_Witness ==
    /\ mode = "bufmut" /\ last.op = "advance_mut"
    /\ viaChain = last.n
    /\ Len(c.a.mem) = 1 /\ Len(c.b.mem) = 2 /\ last.n = 4
    /\ c.b.panicked /\ ~c.a.panicked

\* The same on the read side.
C12_WitnessBuf ==
    /\ mode = "buf" /\ last.op = "advance"
    /\ last.n > Len(Content(c)) - viaFirst - viaLast - (viaChain - last.n)
    /\ c.b.panicked /\ ~c.a.panicked

\* C13: advance(n) with 0 < remaining(first) and n <= remaining(first), n = 0
\* and n = remaining(first) included, moves first by n and leaves second as
\* it is; advance(n) with remaining(first) = 0 leaves first as it is.
\* advance_mut does the same with remaining_mut.
C13_AdvanceFrame ==
    [][/\ (mode = "buf" /\ last'.op = "advance") =>
              /\ (Slice_remaining(c.a) > 0 /\ last'.n <= Slice_remaining(c.a)) =>
                     /\ c'.b = c.b
                     /\ c'.a = [c.a EXCEPT !.pos = @ + last'.n]
              /\ Slice_remaining(c.a) = 0 => c'.a = c.a
       /\ (mode = "bufmut" /\ last'.op = "advance_mut") =>
              /\ (Buffer_remaining_mut(c.a) > 0
                     /\ last'.n <= Buffer_remaining_mut(c.a)) =>
                     /\ c'.b = c.b
                     /\ c'.a = [c.a EXCEPT !.len = @ + last'.n]
              /\ Buffer_remaining_mut(c.a) = 0 => c'.a = c.a]_vars

\* A single advance by exactly remaining(first) on a fresh chain: first is
\* drained, the non-empty second stands where it stood.
C13_Witness ==
    /\ mode = "buf" /\ Live /\ OnlyChainCalls
    /\ last.op = "advance" /\ last.n = viaChain
    /\ last.n = Len(c.a.data) /\ last.n > 0
    /\ c.a.pos = Len(c.a.data)
    /\ Len(c.b.data) > 0 /\ c.b.pos = 0

\* C15: an advance (advance_mut) with 0 < remaining(first) < n and
\* n - remaining(first) > remaining(second) is not undone when the second
\* segment panics: the first segment is left fully drained, so the chain is
\* not in the state it had before the call.
C15_OutOfRangeNotAtomic ==
    [][/\ (/\ mode = "buf" /\ last'.op = "advance"
           /\ 0 < Slice_remaining(c.a) /\ Slice_remaining(c.a) < last'.n
           /\ last'.n - Slice_remaining(c.a) > Slice_remaining(c.b)) =>
              /\ c'.b.panicked
              /\ Slice_remaining(c'.a) = 0
              /\ c'.a # c.a
              /\ c'.b.pos = c.b.pos
       /\ (/\ mode = "bufmut" /\ last'.op = "advance_mut"
           /\ 0 < Buffer_remaining_mut(c.a)
           /\ Buffer_remaining_mut(c.a) < last'.n
           /\ last'.n - Buffer_remaining_mut(c.a) > Buffer_remaining_mut(c.b)) =>
              /\ c'.b.panicked
              /\ Buffer_remaining_mut(c'.a) = 0
              /\ c'.a # c.a
              /\ c'.b.len = c.b.len]_vars

\* The first call on a chain of two one-byte cursors is advance(3): second
\* has panicked and first is drained.
C15_Witness ==
    /\ mode = "buf" /\ OnlyChainCalls
    /\ last.op = "advance" /\ last.n = viaChain /\ last.n = 3
    /\ Len(c.a.data) = 1 /\ Len(c.b.data) = 1
    /\ c.b.panicked /\ c.b.pos = 0
    /\ c.a.pos = 1

\* C14: after any sequence of advances Chain(Chain(a, b), c) and
\* Chain(a, Chain(b, c)) agree: the same remaining(), the same bytes(), the
\* same to_bytes() result, every call made so far returned the same on both,
\* and each of the leaves a, b, c is in the same state in both.
C14_NestingIsAssociative ==
    mode = "nest" =>
        /\ nest.l.a.a = nest.r.a
        /\ nest.l.a.b = nest.r.b.a
        /\ nest.l.b = nest.r.b.b
        /\ nest.lret = nest.rret
        /\ NestLive =>
               /\ Chain_remaining(nest.l) = Chain_remaining(nest.r)
               /\ Chain_bytes(nest.l) = Chain_bytes(nest.r)
               /\ Chain_to_bytes(nest.l).out = Chain_to_bytes(nest.r).out
               /\ Chain_to_bytes(nest.l).out = Drop(Content(nest.l), viaChain)

\* Three non-empty leaves, the last advance having drained a and b and gone
\* one byte into c.
C14_Witness ==
    /\ mode = "nest" /\ NestLive
    /\ last.op = "advance" /\ last.n = 3 /\ viaChain = 4
    /\ Len(nest.r.a.data) = 1 /\ Len(nest.r.b.a.data) = 2
    /\ Len(nest.r.b.b.data) = 2
    /\ nest.l.b.pos = 1

\* C11: a size query returns the exact integer sum of the two segments' size
\* queries, whatever sizes a word can hold: remaining() is
\* remaining(first) + remaining(second) and remaining_mut() is
\* remaining_mut(first) + remaining_mut(second), with no overflow, wrap-around
\* or failure.  (That the query changes neither segment is the frame of the
\* two calls.)
C11_AsStated ==
    /\ last.op = "remaining" =>
           last.out = <<Slice_remaining(c.a) + Slice_remaining(c.b)>>
    /\ last.op = "remaining_mut" =>
           last.out = <<Buffer_remaining_mut(c.a) + Buffer_remaining_mut(c.b)>>

=============================================================================
